---- MODULE Spec2Model ----
(***************************************************************************)
(* Model of modal-app/app.py: the code-execution service.                  *)
(*                                                                         *)
(* execute(payload) dispatches on the language to one of four pipelines    *)
(* (run_python, run_js, run_c, run_cpp).  A pipeline sets the resource     *)
(* limits of the worker process, writes the code to a temporary file,      *)
(* (compiles it, for c and cpp,) runs it with a wall-clock timeout, and    *)
(* removes its files in a finally block.                                   *)
(*                                                                         *)
(* Texts are TLA+ strings.  A Python Optional is a sequence of length 0    *)
(* (None) or 1.  The file system is the set of the paths that exist.       *)
(***************************************************************************)
EXTENDS Integers, Sequences, FiniteSets, TLC

\* ---------------------------------------------------------------- constants
MAX_OUTPUT_LENGTH == 10000
MAX_CPU_SECONDS == 2
MAX_MEMORY_MB == 256

\* ------------------------------------------------------------------- bounds
NumExecs == 2        \* execution slots of the worker
MaxCalls == 2        \* execute calls in one behaviour
MaxExtra == 12       \* characters a long child output has beyond the limit
MaxShort == 24       \* longest short text given to truncate_output
MaxNear == 30        \* distance from the limit of the lengths tried around it

Execs == 1..NumExecs

\* ----------------------------------------------------------------- optional
None == <<>>
Some(x) == <<x>>
Value(o) == o[1]

\* -------------------------------------------------------------------- texts
Digits == <<"0", "1", "2", "3", "4", "5", "6", "7", "8", "9">>

\* str(n) of a natural number, as the f-strings format it
RECURSIVE Str(_)
Str(n) == IF n < 10 THEN Digits[n + 1] ELSE Str(n \div 10) \o Digits[(n % 10) + 1]

\* block repeated k times
RECURSIVE Repeat(_, _)
Repeat(block, k) ==
    IF k = 0 THEN ""
    ELSE LET h == Repeat(block, k \div 2)
         IN  IF k % 2 = 0 THEN h \o h ELSE h \o h \o block

\* a text of n characters whose content changes with the position
FillText(block, n) == SubSeq(Repeat(block, (n \div Len(block)) + 1), 1, n)

\* text[:n] and text[n:] of Python
Prefix(text, n) == SubSeq(text, 1, n)
Suffix(text, n) == SubSeq(text, n + 1, Len(text))

\* truncate_output naming the whole length instead of the omitted count
truncate_output_TotalLength(text, max_len) ==
    IF Len(text) > max_len
    THEN Prefix(text, max_len) \o "\n... (truncated, " \o Str(Len(text))
             \o " more characters)"
    ELSE text

truncate_output(text, max_len) ==
    IF Len(text) > max_len
    THEN Prefix(text, max_len) \o "\n... (truncated, " \o Str(Len(text) - max_len)
             \o " more characters)"
    ELSE text

\* ---------------------------------------------------------- resource limits
Unlimited == [cpu |-> -1, as |-> -1]          \* RLIM_INFINITY

\* the limits set_resource_limits() installs in the calling process
set_resource_limits ==
    [cpu |-> MAX_CPU_SECONDS, as |-> MAX_MEMORY_MB * 1024 * 1024]

\* ----------------------------------------------------------------- requests
Supported == {"python", "javascript", "c", "cpp"}
Compiled == {"c", "cpp"}
\* an identifier no pipeline matches, as long as a text may be
LongLanguage == FillText("go", MAX_OUTPUT_LENGTH)
Languages == Supported \cup {"go", "", LongLanguage}

LoneSurrogate == "\\ud800"                    \* text that utf-8 cannot encode
Codes == {"print('hi')", LoneSurrogate}
Encodable(code) == code # LoneSurrogate

Stdins == {None, Some(""), Some("hello")}

\* Python truth value of an Optional[str]
Truthy(stdin) == stdin # None /\ Value(stdin) # ""

\* ChildInput testing "is not None" instead of the truth value
ChildInput_NotNone(stdin) == IF stdin # None THEN stdin ELSE None

\* input=stdin if stdin else None
ChildInput(stdin) == IF Truthy(stdin) THEN stdin ELSE None

SuffixOf(language) ==
    CASE language = "python" -> ".py"
      [] language = "javascript" -> ".js"
      [] language = "c" -> ".c"
      [] language = "cpp" -> ".cpp"

COMPILE_TIMEOUT == 20
RUN_TIMEOUT_COMPILED == 20
RUN_TIMEOUT_INTERPRETED == 25
RunTimeoutOf(language) ==
    IF language \in Compiled THEN RUN_TIMEOUT_COMPILED ELSE RUN_TIMEOUT_INTERPRETED

\* ------------------------------------------------------------ child outputs
LongText == FillText("abcdefghij", MAX_OUTPUT_LENGTH + MaxExtra)
Outputs == {"", "hi\n", LongText}
RunCodes == {0, 1, -9}
CompileCodes == {0, 1}

\* ------------------------------------------------------------------- paths
TmpName(n, suffix) == "/tmp/tmp" \o Str(n) \o suffix
ExeOf(srcPath) == srcPath \o ".out"

\* FreshName handing out one fixed name per suffix
FreshName_Fixed(count, suffix) == TmpName(1, suffix)

\* mkstemp: a name with the suffix under which no file exists.  The name is
\* drawn at random from 37^8 candidates: as a random value it is taken to be
\* fresh, a name that was never drawn before (count names were drawn so far).
FreshName(count, suffix) == TmpName(count + 1, suffix)

VARIABLES
    pc,          \* pc[e]: position of execution e in execute / run_*
    payload,     \* payload[e]: the request, [language, code, stdin]
    src,         \* src[e]: Optional path of the temporary source file
    exe,         \* exe[e]: Optional path of the artifact
    child,       \* child[e]: Optional child process [step, limits, input, timeout]
    proc,        \* proc[e]: Optional CompletedProcess of the last finished child
    ret,         \* ret[e]: Optional dict the call returns
    exc,         \* exc[e]: Optional exception in flight / raised by the call
    fs,          \* the paths that exist on disk
    hostLimits,  \* resource limits of the worker process
    calls,       \* number of execute calls started
    drawn,       \* number of temporary names drawn so far
    log,         \* log[e]: the steps execution e has taken, in order
    text,        \* argument of a direct truncate_output call
    truncated    \* Optional result of that call

vars == <<pc, payload, src, exe, child, proc, ret, exc, fs, hostLimits, calls,
          drawn, log, text, truncated>>

pipeVars == <<pc, payload, src, exe, child, proc, ret, exc, fs, hostLimits, calls,
              drawn, log>>
truncVars == <<text, truncated>>

NoPayload == [language |-> "", code |-> "", stdin |-> None]

InitPipe ==
    /\ pc = [e \in Execs |-> "idle"]
    /\ payload = [e \in Execs |-> NoPayload]
    /\ src = [e \in Execs |-> None]
    /\ exe = [e \in Execs |-> None]
    /\ child = [e \in Execs |-> None]
    /\ proc = [e \in Execs |-> None]
    /\ ret = [e \in Execs |-> None]
    /\ exc = [e \in Execs |-> None]
    /\ fs = {}
    /\ hostLimits = Unlimited
    /\ calls = 0
    /\ drawn = 0
    /\ log = [e \in Execs |-> <<>>]

Init ==
    /\ InitPipe
    /\ text = ""
    /\ truncated = None

Logged(e, step) == log' = [log EXCEPT ![e] = Append(@, step)]

\* ------------------------------------------------------------------ execute
\* execute applying the limits before it looks at the language
Execute_LimitsFirst(e, language, code, stdin) ==
    /\ pc[e] = "idle"
    /\ Logged(e, "dispatch")
    /\ calls < MaxCalls
    /\ calls' = calls + 1
    /\ payload' = [payload EXCEPT ![e] =
                     [language |-> language, code |-> code, stdin |-> stdin]]
    /\ hostLimits' = set_resource_limits
    /\ IF language \in Supported
       THEN /\ pc' = [pc EXCEPT ![e] = "start"]
            /\ ret' = ret
       ELSE /\ pc' = [pc EXCEPT ![e] = "done"]
            /\ ret' = [ret EXCEPT ![e] =
                         Some([output |-> "",
                               error |-> "Unsupported language: " \o language,
                               success |-> FALSE])]
    /\ UNCHANGED <<src, exe, child, proc, exc, fs, drawn, truncVars>>

\* execute(payload): the dispatch.  An unsupported language returns at once.
Execute(e, language, code, stdin) ==
    /\ pc[e] = "idle"
    /\ Logged(e, "dispatch")
    /\ calls < MaxCalls
    /\ calls' = calls + 1
    /\ payload' = [payload EXCEPT ![e] =
                     [language |-> language, code |-> code, stdin |-> stdin]]
    /\ IF language \in Supported
       THEN /\ pc' = [pc EXCEPT ![e] = "start"]
            /\ ret' = ret
       ELSE /\ pc' = [pc EXCEPT ![e] = "done"]
            /\ ret' = [ret EXCEPT ![e] =
                         Some([output |-> "",
                               error |-> "Unsupported language: " \o language,
                               success |-> FALSE])]
    /\ UNCHANGED <<src, exe, child, proc, exc, fs, hostLimits, drawn, truncVars>>

\* ------------------------------------------------------- steps of a run_*
\* RunResult taking every status that is not negative for a success
RunResult_NonNegative(p) ==
    [output |-> truncate_output(p.stdout, MAX_OUTPUT_LENGTH),
     error |-> truncate_output(p.stderr, MAX_OUTPUT_LENGTH),
     success |-> p.returncode >= 0]

\* a dict built from a finished run child
RunResult(p) ==
    [output |-> truncate_output(p.stdout, MAX_OUTPUT_LENGTH),
     error |-> truncate_output(p.stderr, MAX_OUTPUT_LENGTH),
     success |-> p.returncode = 0]

\* CompileFailureResult reporting the compiler's stdout
CompileFailureResult_Stdout(p) ==
    [output |-> "",
     error |-> truncate_output(p.stdout, MAX_OUTPUT_LENGTH),
     success |-> FALSE]

\* the dict returned when the compiler exits non-zero
CompileFailureResult(p) ==
    [output |-> "",
     error |-> truncate_output(p.stderr, MAX_OUTPUT_LENGTH),
     success |-> FALSE]

\* SetLimits that leaves the limits of the calling process as they are
SetLimits_Skip(e) ==
    /\ pc[e] = "start"
    /\ Logged(e, "limits")
    /\ hostLimits' = hostLimits
    /\ pc' = [pc EXCEPT ![e] = "create"]
    /\ UNCHANGED <<payload, src, exe, child, proc, ret, exc, fs, calls, drawn, truncVars>>

\* set_resource_limits(): the limits of the calling process are replaced
SetLimits(e) ==
    /\ pc[e] = "start"
    /\ Logged(e, "limits")
    /\ hostLimits' = set_resource_limits
    /\ pc' = [pc EXCEPT ![e] = "create"]
    /\ UNCHANGED <<payload, src, exe, child, proc, ret, exc, fs, calls, drawn, truncVars>>

\* with NamedTemporaryFile("w", suffix=..., delete=False) as f:
\*     f.write(code); path = f.name
\* and, for c and cpp, exe = src + ".out".  The file is created under a name
\* that does not exist; a code that cannot be encoded makes the write raise
\* after the file was created and before the try block is entered.
CreateSource(e) ==
    /\ pc[e] = "create"
    /\ Logged(e, "create")
    /\ LET language == payload[e].language
           path == FreshName(drawn, SuffixOf(language))
       IN  /\ fs' = fs \cup {path}
           /\ drawn' = drawn + 1
           /\ IF Encodable(payload[e].code)
              THEN /\ src' = [src EXCEPT ![e] = Some(path)]
                   /\ exe' = [exe EXCEPT ![e] =
                                IF language \in Compiled
                                THEN Some(ExeOf(path)) ELSE None]
                   /\ pc' = [pc EXCEPT ![e] =
                               IF language \in Compiled THEN "compile" ELSE "run"]
                   /\ exc' = exc
              ELSE /\ exc' = [exc EXCEPT ![e] = Some("UnicodeEncodeError")]
                   /\ pc' = [pc EXCEPT ![e] = "done"]
                   /\ UNCHANGED <<src, exe>>
    /\ UNCHANGED <<payload, child, proc, ret, hostLimits, calls, truncVars>>

\* subprocess.run(["gcc", src, "-O2", "-o", exe], ..., timeout=20): the spawn.
\* No preexec_fn: the child inherits the limits of the calling process.
SpawnCompile(e) ==
    /\ pc[e] = "compile"
    /\ Logged(e, "spawn_compile")
    /\ child' = [child EXCEPT ![e] =
                   Some([step |-> "compile", limits |-> hostLimits,
                         input |-> None, timeout |-> COMPILE_TIMEOUT])]
    /\ pc' = [pc EXCEPT ![e] = "compiling"]
    /\ UNCHANGED <<payload, src, exe, proc, ret, exc, fs, hostLimits, calls, drawn, truncVars>>

\* CompileExit that goes on to the run step whatever the status
CompileExit_NoCheck(e, returncode, stderr) ==
    /\ pc[e] = "compiling"
    /\ Logged(e, "compile_exit")
    /\ proc' = [proc EXCEPT ![e] =
                  Some([step |-> "compile", returncode |-> returncode,
                        stdout |-> "", stderr |-> stderr])]
    /\ pc' = [pc EXCEPT ![e] = "run"]
    /\ fs' = IF returncode = 0 THEN fs \cup {Value(exe[e])} ELSE fs
    /\ child' = [child EXCEPT ![e] = None]
    /\ UNCHANGED <<payload, src, exe, ret, exc, hostLimits, calls, drawn, truncVars>>

\* the compiler exits within the timeout; status zero leaves the artifact, a
\* non-zero status returns the failure dict from inside the try block
CompileExit(e, returncode, stderr) ==
    /\ pc[e] = "compiling"
    /\ Logged(e, "compile_exit")
    /\ LET compile_res == [step |-> "compile", returncode |-> returncode,
                           stdout |-> "", stderr |-> stderr]
       IN  /\ proc' = [proc EXCEPT ![e] = Some(compile_res)]
           /\ IF compile_res.returncode # 0
              THEN /\ ret' = [ret EXCEPT ![e] = Some(CompileFailureResult(compile_res))]
                   /\ pc' = [pc EXCEPT ![e] = "finally"]
                   /\ fs' = fs
              ELSE /\ ret' = ret
                   /\ pc' = [pc EXCEPT ![e] = "run"]
                   /\ fs' = fs \cup {Value(exe[e])}
    /\ child' = [child EXCEPT ![e] = None]
    /\ UNCHANGED <<payload, src, exe, exc, hostLimits, calls, drawn, truncVars>>

\* the compiler is still running after 20 s: subprocess.run kills it and raises
\* TimeoutExpired; the killed compiler may have left a partial artifact
CompileTimeout(e, partial) ==
    /\ pc[e] = "compiling"
    /\ Logged(e, "compile_timeout")
    /\ child' = [child EXCEPT ![e] = None]
    /\ exc' = [exc EXCEPT ![e] = Some("TimeoutExpired")]
    /\ fs' = IF partial THEN fs \cup {Value(exe[e])} ELSE fs
    /\ pc' = [pc EXCEPT ![e] = "finally"]
    /\ UNCHANGED <<payload, src, exe, proc, ret, hostLimits, calls, drawn, truncVars>>

\* subprocess.run([sys.executable, path] | ["node", path] | [exe], ...,
\*                timeout=..., input=stdin if stdin else None): the spawn
SpawnRun(e) ==
    /\ pc[e] = "run"
    /\ Logged(e, "spawn_run")
    /\ child' = [child EXCEPT ![e] =
                   Some([step |-> "run", limits |-> hostLimits,
                         input |-> ChildInput(payload[e].stdin),
                         timeout |-> RunTimeoutOf(payload[e].language)])]
    /\ pc' = [pc EXCEPT ![e] = "running"]
    /\ UNCHANGED <<payload, src, exe, proc, ret, exc, fs, hostLimits, calls, drawn, truncVars>>

\* the executed program removes one of the files of its own execution: its
\* source (which = "src") or, for c and cpp, its artifact (which = "exe")
ChildRemoves(e, which) ==
    /\ pc[e] = "running"
    /\ log' = log
    /\ LET target == IF which = "src" THEN src[e] ELSE exe[e]
       IN  /\ target # None
           /\ Value(target) \in fs
           /\ fs' = fs \ {Value(target)}
    /\ UNCHANGED <<pc, payload, src, exe, child, proc, ret, exc, hostLimits, calls, drawn, truncVars>>

\* the executed program exits within the timeout.  run_c and run_cpp build
\* the returned dict inside the try block, run_python and run_js after it.
RunExit(e, returncode, stdout, stderr) ==
    /\ pc[e] = "running"
    /\ Logged(e, "run_exit")
    /\ LET run_res == [step |-> "run", returncode |-> returncode,
                       stdout |-> stdout, stderr |-> stderr]
       IN  /\ proc' = [proc EXCEPT ![e] = Some(run_res)]
           /\ ret' = IF payload[e].language \in Compiled
                     THEN [ret EXCEPT ![e] = Some(RunResult(run_res))]
                     ELSE ret
    /\ child' = [child EXCEPT ![e] = None]
    /\ pc' = [pc EXCEPT ![e] = "finally"]
    /\ UNCHANGED <<payload, src, exe, exc, fs, hostLimits, calls, drawn, truncVars>>

\* RunTimeout of a subprocess.run without timeout=: it never fires
RunTimeout_Never(e) ==
    /\ pc[e] = "running"
    /\ FALSE
    /\ UNCHANGED vars

\* RunTimeout that starts the run step again
RunTimeout_Retry(e) ==
    /\ pc[e] = "running"
    /\ Logged(e, "run_timeout")
    /\ child' = [child EXCEPT ![e] = None]
    /\ pc' = [pc EXCEPT ![e] = "run"]
    /\ UNCHANGED <<payload, src, exe, proc, ret, exc, fs, hostLimits, calls, drawn, truncVars>>

\* the executed program is still running after the timeout: subprocess.run
\* kills it and raises TimeoutExpired
RunTimeout(e) ==
    /\ pc[e] = "running"
    /\ Logged(e, "run_timeout")
    /\ child' = [child EXCEPT ![e] = None]
    /\ exc' = [exc EXCEPT ![e] = Some("TimeoutExpired")]
    /\ pc' = [pc EXCEPT ![e] = "finally"]
    /\ UNCHANGED <<payload, src, exe, proc, ret, fs, hostLimits, calls, drawn, truncVars>>

\* finally: os.unlink(path)             (run_python, run_js)
\* os.unlink of a path that does not exist raises FileNotFoundError
CleanupInterpreted(files, path) ==
    IF path \in files
    THEN [fs |-> files \ {path}, raised |-> None]
    ELSE [fs |-> files, raised |-> Some("FileNotFoundError")]

\* CleanupCompiled that forgets the artifact
CleanupCompiled_SourceOnly(files, srcPath, exePath) ==
    LET afterSrc == IF srcPath \in files THEN files \ {srcPath} ELSE files
    IN  [fs |-> afterSrc, raised |-> None]

\* finally: if os.path.exists(src): os.unlink(src)
\*          if os.path.exists(exe): os.unlink(exe)       (run_c, run_cpp)
CleanupCompiled(files, srcPath, exePath) ==
    LET afterSrc == IF srcPath \in files THEN files \ {srcPath} ELSE files
        afterExe == IF exePath \in afterSrc THEN afterSrc \ {exePath} ELSE afterSrc
    IN  [fs |-> afterExe, raised |-> None]

\* the finally block and the end of the call: an exception raised by the
\* block replaces the pending return value or exception; run_python and
\* run_js build their dict after the block, when nothing is in flight
Finally(e) ==
    /\ pc[e] = "finally"
    /\ Logged(e, "cleanup")
    /\ LET compiled == payload[e].language \in Compiled
           done == IF compiled
                   THEN CleanupCompiled(fs, Value(src[e]), Value(exe[e]))
                   ELSE CleanupInterpreted(fs, Value(src[e]))
       IN  /\ fs' = done.fs
           /\ exc' = [exc EXCEPT ![e] = IF done.raised # None THEN done.raised ELSE @]
           /\ ret' = [ret EXCEPT ![e] =
                        IF done.raised # None \/ exc[e] # None THEN None
                        ELSE IF compiled THEN @
                        ELSE Some(RunResult(Value(proc[e])))]
    /\ pc' = [pc EXCEPT ![e] = "done"]
    /\ UNCHANGED <<payload, src, exe, child, proc, hostLimits, calls, drawn, truncVars>>

\* the call is over and the worker takes the next input; the limits of the
\* worker process and the disk stay as the call left them
Reset(e) ==
    /\ pc[e] = "done"
    /\ pc' = [pc EXCEPT ![e] = "idle"]
    /\ payload' = [payload EXCEPT ![e] = NoPayload]
    /\ src' = [src EXCEPT ![e] = None]
    /\ exe' = [exe EXCEPT ![e] = None]
    /\ proc' = [proc EXCEPT ![e] = None]
    /\ ret' = [ret EXCEPT ![e] = None]
    /\ exc' = [exc EXCEPT ![e] = None]
    /\ log' = [log EXCEPT ![e] = <<>>]
    /\ UNCHANGED <<child, fs, hostLimits, calls, drawn, truncVars>>

\* the worker handles one input at a time; Next gives it the first slot, as
\* the slots of a worker that is free are interchangeable
WorkerFree == \A e \in Execs : pc[e] = "idle"

Next ==
    \E e \in Execs :
        \/ \E language \in Languages, code \in Codes, stdin \in Stdins :
              WorkerFree /\ e = 1 /\ Execute(e, language, code, stdin)
        \/ SetLimits(e)
        \/ CreateSource(e)
        \/ SpawnCompile(e)
        \/ \E returncode \in CompileCodes, stderr \in Outputs :
              CompileExit(e, returncode, stderr)
        \/ \E partial \in BOOLEAN : CompileTimeout(e, partial)
        \/ SpawnRun(e)
        \/ \E which \in {"src", "exe"} : ChildRemoves(e, which)
        \/ \E returncode \in RunCodes, stdout \in Outputs, stderr \in Outputs :
              RunExit(e, returncode, stdout, stderr)
        \/ RunTimeout(e)
        \/ Finally(e)
        \/ Reset(e)

Spec == Init /\ [][Next]_vars

\* the steps of execution e that do not wait for the executed program: the
\* statements of run_* follow one another, and a wall-clock timeout elapses
\* whatever the child does.  The exit of a child on its own is not among them.
Progress(e) ==
    \/ SetLimits(e)
    \/ CreateSource(e)
    \/ SpawnCompile(e)
    \/ \E partial \in BOOLEAN : CompileTimeout(e, partial)
    \/ SpawnRun(e)
    \/ RunTimeout(e)
    \/ Finally(e)

SpecFair == Init /\ [][Next]_vars /\ \A e \in Execs : WF_vars(Progress(e))

\* ------------------------------------------ executions running concurrently
\* The functions called for several inputs at a time in one worker: the steps
\* of the executions interleave on one disk.  The programs are quiet and the
\* requests carry no stdin.
ConcLanguages == {"python", "c"}

NextConc ==
    \E e \in Execs :
        \/ \E language \in ConcLanguages : Execute(e, language, "print('hi')", None)
        \/ SetLimits(e)
        \/ CreateSource(e)
        \/ SpawnCompile(e)
        \/ \E returncode \in CompileCodes : CompileExit(e, returncode, "")
        \/ \E partial \in BOOLEAN : CompileTimeout(e, partial)
        \/ SpawnRun(e)
        \/ \E which \in {"src", "exe"} : ChildRemoves(e, which)
        \/ RunExit(e, 0, "", "")
        \/ RunTimeout(e)
        \/ Finally(e)
        \/ Reset(e)

SpecConc == Init /\ [][NextConc]_vars

\* ------------------------------------------- truncate_output called directly
TruncLens ==
    (0..MaxShort)
      \cup ((MAX_OUTPUT_LENGTH - MaxNear)..(MAX_OUTPUT_LENGTH + MaxNear))
      \cup {MAX_OUTPUT_LENGTH + 100, MAX_OUTPUT_LENGTH + 1234, 2 * MAX_OUTPUT_LENGTH}
TruncInputs == {FillText(block, n) : block \in {"abcdefghij", "0123456"}, n \in TruncLens}

InitTrunc ==
    /\ InitPipe
    /\ text \in TruncInputs
    /\ truncated = None

TruncateCall ==
    /\ truncated = None
    /\ truncated' = Some(truncate_output(text, MAX_OUTPUT_LENGTH))
    /\ UNCHANGED <<pipeVars, text>>

NextTrunc == TruncateCall

SpecTrunc == InitTrunc /\ [][NextTrunc]_vars

\* =================================================================== claims
Ran(e, step) == \E i \in DOMAIN log[e] : log[e][i] = step
Done(e) == pc[e] = "done"

\* the pipeline of e ended in one of: run exited, run timed out, compile
\* failed, compile timed out
PipelineEnded(e) ==
    /\ Done(e)
    /\ \/ Ran(e, "run_exit")
       \/ Ran(e, "run_timeout")
       \/ Ran(e, "compile_timeout")
       \/ Ran(e, "compile_exit") /\ ~Ran(e, "spawn_run")

\* the truncation notice, taken apart
TruncHead == "\n... (truncated, "
TruncTail == " more characters)"
DigitValue(c) == (CHOOSE d \in 1..10 : Digits[d] = c) - 1
IsDigits(s) ==
    /\ Len(s) > 0
    /\ \A i \in 1..Len(s) : \E d \in 1..10 : SubSeq(s, i, i) = Digits[d]
RECURSIVE ParseNat(_)
ParseNat(s) ==
    IF Len(s) = 0 THEN 0
    ELSE ParseNat(SubSeq(s, 1, Len(s) - 1)) * 10 + DigitValue(SubSeq(s, Len(s), Len(s)))
IsNotice(s) ==
    /\ Len(s) > Len(TruncHead) + Len(TruncTail)
    /\ SubSeq(s, 1, Len(TruncHead)) = TruncHead
    /\ SubSeq(s, Len(s) - Len(TruncTail) + 1, Len(s)) = TruncTail
    /\ IsDigits(SubSeq(s, Len(TruncHead) + 1, Len(s) - Len(TruncTail)))
NoticeCount(s) == ParseNat(SubSeq(s, Len(TruncHead) + 1, Len(s) - Len(TruncTail)))
Bounded(t) == Len(t) <= MAX_OUTPUT_LENGTH \/ IsNotice(Suffix(t, MAX_OUTPUT_LENGTH))

\* C1: after an execute call for a supported language whose pipeline ended
\* (run exited with any status, run timed out, compile failed, compile timed
\* out), neither the temporary source file nor the artifact of that call exists.
C1_NoFileRemains ==
    \A e \in Execs :
        (PipelineEnded(e) /\ payload[e].language \in Supported) =>
            /\ Value(src[e]) \notin fs
            /\ exe[e] # None => Value(exe[e]) \notin fs

\* a c or cpp call that compiled and ran is over and its two files are gone
W1_CleanedAfterCompiledRun ==
    \E e \in Execs :
        /\ Done(e) /\ payload[e].language \in Compiled /\ Ran(e, "run_exit")
        /\ Value(src[e]) \notin fs /\ Value(exe[e]) \notin fs

\* C2: every failure during a pipeline (compile failure, runtime failure,
\* compile or run timeout, cleanup failure) ends in a returned dict of the
\* shape {output, error, success}; no exception leaves the call.
C2_EveryFailureReturned ==
    \A e \in Execs :
        PipelineEnded(e) =>
            /\ exc[e] = None
            /\ ret[e] # None
            /\ DOMAIN Value(ret[e]) = {"output", "error", "success"}

\* C3: for a language outside {python, javascript, c, cpp}, execute returns
\* {output: "", error: "Unsupported language: <language>", success: false},
\* takes no step of a pipeline, sets no resource limit, and creates or
\* deletes no file.
C3_UnsupportedNoEffect ==
    [][\A e \in Execs :
          /\ (pc[e] = "idle" /\ pc'[e] # "idle" /\ payload'[e].language \notin Supported) =>
                /\ pc'[e] = "done"
                /\ exc'[e] = None
                /\ ret'[e] = Some([output |-> "",
                                   error |-> "Unsupported language: " \o payload'[e].language,
                                   success |-> FALSE])
                /\ fs' = fs
                /\ hostLimits' = hostLimits
                /\ child' = child
                /\ src'[e] = None /\ exe'[e] = None
          /\ (pc[e] # "idle" /\ payload[e].language \notin Supported) =>
                /\ pc[e] = "done"
                /\ log[e] = <<"dispatch">>
                /\ pc'[e] # "idle" => (fs' = fs /\ hostLimits' = hostLimits /\ child' = child)
      ]_vars

\* execute returned the error dict for the language "go"
W3_UnsupportedGo ==
    \E e \in Execs :
        /\ Done(e) /\ payload[e].language = "go"
        /\ ret[e] = Some([output |-> "", error |-> "Unsupported language: go",
                          success |-> FALSE])

\* C4: for c and cpp, when the compiler exits with a non-zero status the call
\* returns {output: "", error: the compiler's stderr truncated, success: false}.
C4_CompileFailureResult ==
    \A e \in Execs :
        (/\ Done(e) /\ Ran(e, "compile_exit") /\ ~Ran(e, "spawn_run")) =>
            /\ Value(proc[e]).step = "compile"
            /\ Value(proc[e]).returncode # 0
            /\ exc[e] = None
            /\ ret[e] = Some([output |-> "",
                              error |-> truncate_output(Value(proc[e]).stderr,
                                                        MAX_OUTPUT_LENGTH),
                              success |-> FALSE])

\* a failed compile with a long diagnostic was reported, truncated
W4_LongDiagnostic ==
    \E e \in Execs :
        /\ Done(e) /\ payload[e].language = "cpp"
        /\ proc[e] # None /\ Value(proc[e]).step = "compile"
        /\ Value(proc[e]).stderr = LongText
        /\ ret[e] # None /\ Len(Value(ret[e]).error) > MAX_OUTPUT_LENGTH

\* C5: for c and cpp, a compile step that exceeds its 20 s timeout is reported
\* like a failed compile: the call returns a dict with output empty,
\* success false and an error text, and the run step is not attempted.
C5_CompileTimeoutReported ==
    \A e \in Execs :
        (Done(e) /\ Ran(e, "compile_timeout")) =>
            /\ ~Ran(e, "spawn_run")
            /\ exc[e] = None
            /\ ret[e] # None
            /\ Value(ret[e]).output = ""
            /\ Value(ret[e]).success = FALSE
            /\ Value(ret[e]).error # ""

\* C6: when the run step exceeds its wall-clock timeout the child is killed
\* and the call returns a dict with success false.
C6_RunTimeoutReported ==
    \A e \in Execs :
        (Done(e) /\ Ran(e, "run_timeout")) =>
            /\ child[e] = None
            /\ exc[e] = None
            /\ ret[e] # None
            /\ Value(ret[e]).success = FALSE

\* C7: in every dict a pipeline returns, success is true exactly when the last
\* process of the execution (the run child, or the compiler when the compile
\* failed) exited with status zero.
C7_SuccessIffZero ==
    \A e \in Execs :
        (Done(e) /\ payload[e].language \in Supported /\ ret[e] # None) =>
            /\ proc[e] # None
            /\ Value(proc[e]).step = (IF Ran(e, "spawn_run") THEN "run" ELSE "compile")
            /\ Value(ret[e]).success = (Value(proc[e]).returncode = 0)

\* a run child killed by a resource limit was reported as a failure
W7_KilledChildFails ==
    \E e \in Execs :
        /\ Done(e) /\ ret[e] # None /\ proc[e] # None
        /\ Value(proc[e]).step = "run" /\ Value(proc[e]).returncode = -9
        /\ Value(ret[e]).success = FALSE

\* C8: truncate_output(text) with the default limit returns text unchanged
\* when len(text) <= 10000, and otherwise the first 10000 characters of text
\* followed by a notice that names len(text) - 10000.
C8_Truncate ==
    truncated # None =>
        LET out == Value(truncated)
        IN  IF Len(text) <= 10000
            THEN out = text
            ELSE /\ Prefix(out, 10000) = Prefix(text, 10000)
                 /\ IsNotice(Suffix(out, 10000))
                 /\ NoticeCount(Suffix(out, 10000)) = Len(text) - 10000

\* a text of 11234 characters was cut to 10000 and a notice
W8_LongTextCut ==
    /\ truncated # None
    /\ Len(text) = 11234
    /\ Len(Value(truncated)) = 10000 + Len(TruncHead) + 4 + Len(TruncTail)

\* C9: in every dict execute returns, on every path, the output field and the
\* error field are at most 10000 characters long, plus an optional
\* truncation notice.
C9_FieldsBounded ==
    \A e \in Execs :
        (Done(e) /\ ret[e] # None) =>
            /\ Bounded(Value(ret[e]).output)
            /\ Bounded(Value(ret[e]).error)

\* C10: a failure to remove the source or the artifact in the cleanup, the
\* file being already gone included, is not surfaced and does not change the
\* result: the call returns the dict the compile or run step produced.
C10_CleanupFailureHidden ==
    \A e \in Execs :
        (Done(e) /\ Ran(e, "cleanup") /\ proc[e] # None /\ ~Ran(e, "run_timeout")) =>
            /\ exc[e] = None
            /\ ret[e] = Some(IF Value(proc[e]).step = "run"
                             THEN RunResult(Value(proc[e]))
                             ELSE CompileFailureResult(Value(proc[e])))

\* C11: every execute call for a supported language comes to an end: a program
\* that never exits on its own is killed when the run timeout elapses, and the
\* pipeline goes on to the cleanup and ends, with no child left.
C11_CallEnds ==
    \A e \in Execs :
        (pc[e] \in {"start", "running"}) ~> (Done(e) /\ child[e] = None)

\* a call whose program was killed by the run timeout went through the
\* cleanup and is over
W11_EndedAfterRunTimeout ==
    \E e \in Execs :
        /\ Done(e) /\ Ran(e, "run_timeout") /\ Ran(e, "cleanup")
        /\ child[e] = None

\* C12: in a c or cpp execution the run step starts only after the compiler
\* has exited with status zero; after a failed or timed-out compile the
\* artifact is never run.
C12_RunOnlyAfterCompile ==
    [][\A e \in Execs :
          /\ (payload[e].language \in Compiled /\ pc[e] # "running" /\ pc'[e] = "running") =>
                /\ proc[e] # None
                /\ Value(proc[e]).step = "compile"
                /\ Value(proc[e]).returncode = 0
                /\ Ran(e, "compile_exit")
          /\ (\/ Ran(e, "compile_timeout")
              \/ /\ proc[e] # None
                 /\ Value(proc[e]).step = "compile"
                 /\ Value(proc[e]).returncode # 0) =>
                /\ ~Ran(e, "spawn_run")
                /\ pc'[e] \notin {"run", "running"}
      ]_vars

\* the artifact of a c execution is running after a compile of status zero
W12_ArtifactRunning ==
    \E e \in Execs :
        /\ payload[e].language = "c" /\ pc[e] = "running"
        /\ Value(proc[e]).step = "compile" /\ Value(proc[e]).returncode = 0

\* number of times execution e took the step
Count(e, step) == Cardinality({i \in DOMAIN log[e] : log[e][i] = step})

\* C13: every workspace an execution creates gets exactly one cleanup
\* attempt, whichever step failed, a failing write of the code into the new
\* source file included.
C13_OneCleanupPerWorkspace ==
    \A e \in Execs :
        /\ Count(e, "cleanup") <= Count(e, "create")
        /\ (Done(e) /\ Ran(e, "create")) => Count(e, "cleanup") = 1

\* C14: the resource limits are applied to the spawned child only: an
\* execution leaves the limits of the calling service process unchanged, so
\* they do not carry over to a later execution of the same process.
C14_HostLimitsUnchanged == [][hostLimits' = hostLimits]_vars

\* the orders of steps of the state machine
\* Created -> [Compiling -> (CompileFailed | Compiled)] -> Running
\*         -> (Completed | TimedOut) -> Cleaned
AllowedRuns ==
    LET created == <<"dispatch", "limits", "create">>
        ran == {<<"spawn_run", finish, "cleanup">> : finish \in {"run_exit", "run_timeout"}}
    IN  {created \o r : r \in ran}
          \cup {created \o <<"spawn_compile", "compile_exit">> \o r : r \in ran}
          \cup {created \o <<"spawn_compile", failed, "cleanup">> :
                   failed \in {"compile_exit", "compile_timeout"}}
IsPrefix(s, t) == Len(s) <= Len(t) /\ SubSeq(t, 1, Len(s)) = s

\* C16: an execution takes only the transitions of the state machine, with no
\* retry: the compile step and the run step are each started at most once, and
\* a failed compile and a timeout still lead to the cleanup.
C16_NoRetry ==
    \A e \in Execs :
        /\ \E r \in AllowedRuns : IsPrefix(log[e], r)
        /\ Count(e, "spawn_compile") <= 1 /\ Count(e, "spawn_run") <= 1
        /\ (Done(e) /\ (Ran(e, "spawn_compile") \/ Ran(e, "spawn_run"))) =>
              log[e][Len(log[e])] = "cleanup"

\* a cpp execution whose compile timed out is over, cleaned
W16_CompileTimeoutCleaned ==
    \E e \in Execs :
        /\ Done(e) /\ payload[e].language = "cpp"
        /\ log[e] = <<"dispatch", "limits", "create", "spawn_compile",
                      "compile_timeout", "cleanup">>

\* C17: the resource limits are applied before any child is spawned: every
\* child of an execution, the compiler as well as the executed program,
\* starts with 2 s of CPU and 256 MiB of address space.
C17_ChildrenStartLimited ==
    \A e \in Execs :
        /\ child[e] # None =>
              /\ Value(child[e]).limits = [cpu |-> 2, as |-> 268435456]
              /\ Ran(e, "limits")
        /\ \A i, j \in DOMAIN log[e] :
              (log[e][i] = "limits" /\ log[e][j] \in {"spawn_compile", "spawn_run"}) => i < j

\* the first compiler the worker spawns runs under the two ceilings
W17_FirstCompilerLimited ==
    \E e \in Execs :
        /\ calls = 1 /\ child[e] # None
        /\ Value(child[e]).step = "compile"
        /\ Value(child[e]).limits.cpu = 2

\* C18: in all four pipelines an empty stdin is handled like an absent one:
\* the child's input is piped from the request only when stdin is a non-empty
\* text; otherwise the run step is started with no input.
C18_EmptyStdinIsAbsent ==
    \A e \in Execs :
        (child[e] # None /\ Value(child[e]).step = "run") =>
            IF payload[e].stdin = None \/ payload[e].stdin = Some("")
            THEN Value(child[e]).input = None
            ELSE Value(child[e]).input = payload[e].stdin

\* a javascript program runs with no input although stdin was ""
W18_EmptyStdinNoInput ==
    \E e \in Execs :
        /\ payload[e].language = "javascript" /\ payload[e].stdin = Some("")
        /\ child[e] # None /\ Value(child[e]).step = "run"
        /\ Value(child[e]).input = None

\* execution e is between the creation of its source file and its end
Live(e) == src[e] # None /\ pc[e] # "done"

====
